---- MODULE Spec2Model ----
(***************************************************************************)
(* Inspiro gallery: the two App components (local-fixture variant in       *)
(* src/minimized.tsx, remote-API variant in src/types.ts) and the          *)
(* MinimizedPlayer component (src/types.ts), as one state machine.         *)
(* Each action is one event handler together with the re-render and the    *)
(* effects React runs after it.                                            *)
(***************************************************************************)
EXTENDS Integers, Sequences, FiniteSets, TLC

VARIABLES
    variant,      \* which App component runs: "mock" or "api"
    posts,        \* App state `posts`
    searchQuery,  \* App state `searchQuery`
    activeMedia,  \* App state `activeMedia`
    activeModal,  \* App state `activeModal`
    player,       \* MinimizedPlayer component state (NULL while unmounted)
    media,        \* the <video>/<audio> element behind mediaRef (NULL while unmounted)
    session,      \* navigator.mediaSession
    isLoading,    \* App state `isLoading`
    error,        \* App state `error`
    cache,        \* localStorage entry 'inspiro_posts'
    load,         \* progress of the load effect: phase, what the cache read found, outcome
    crashed,      \* a render threw and React removed the tree
    lastOp,       \* the handler that ran last, its argument, whether it threw
    trip,         \* bookkeeping of a Next immediately followed by a Prev
    touchStart,   \* useSwipe state `touchStart`
    swiped,       \* the callbacks the last useSwipe handler invoked, in order
    twin          \* activeMedia / activeModal of the other App component under the same events

vars ==
    <<variant, posts, searchQuery, activeMedia, activeModal, player, media, session,
      isLoading, error, cache, load, crashed, lastOp, trip, touchStart, swiped, twin>>

appvars == <<posts, searchQuery, activeMedia, activeModal, player, media, session, isLoading, error>>

loadvars == <<isLoading, error, cache, load>>

swipevars == <<touchStart, swiped>>

----------------------------------------------------------------------------
(* Bounds *)

MaxTime == 2

\* width of the progress bar, in the units clientX is drawn from
BarWidth == 2

----------------------------------------------------------------------------
(* Values *)

NULL == [null |-> TRUE]

Some(v) == [some |-> TRUE, val |-> v]

NoText == [some |-> FALSE, val |-> <<>>]

NoNumber == [some |-> FALSE, val |-> 0]

NaN == -1

Infinity == -2

isFinite(d) == d # NaN /\ d # Infinity

Chars == {"a", "A", "b", "B"}

\* String.prototype.toLowerCase, one character
LowerChar(c) == CASE c = "A" -> "a" [] c = "B" -> "b" [] OTHER -> c

toLowerCase(s) == [i \in 1..Len(s) |-> LowerChar(s[i])]

\* String.prototype.includes
includes(s, sub) == \E i \in 0..(Len(s) - Len(sub)) : SubSeq(s, i + 1, i + Len(sub)) = sub

\* JavaScript truthiness of an optional string: null, undefined and "" are falsy
Truthy(f) == f.some /\ f.val # <<>>

\* post.initialTime || 0
OrZero(n) == IF n.some /\ n.val # 0 THEN n.val ELSE 0

isMediaPost_acceptsAll(type) == TRUE

isMediaPost(type) == type \in {"audio", "video"}

----------------------------------------------------------------------------
(* filteredPosts *)

postMatches_titleOnly(post, lowercasedQuery) == includes(toLowerCase(post.title), lowercasedQuery)

postMatches(post, lowercasedQuery) ==
    \/ includes(toLowerCase(post.title), lowercasedQuery)
    \/ (Truthy(post.description) /\ includes(toLowerCase(post.description.val), lowercasedQuery))
    \/ (Truthy(post.noteText) /\ includes(toLowerCase(post.noteText.val), lowercasedQuery))
    \/ (Truthy(post.quoteText) /\ includes(toLowerCase(post.quoteText.val), lowercasedQuery))

filteredPosts_caseSensitive(ps, q) ==
    IF q = <<>> THEN ps
    ELSE SelectSeq(ps, LAMBDA post : postMatches(post, q))

filteredPosts(ps, q) ==
    IF q = <<>> THEN ps
    ELSE LET lowercasedQuery == toLowerCase(q)
         IN SelectSeq(ps, LAMBDA post : postMatches(post, lowercasedQuery))

findIndex_zero(fp, id) == IF Len(fp) = 0 THEN -1 ELSE 0

\* Array.prototype.findIndex(p => p._id === id), 0-based, -1 when absent
findIndex(fp, id) ==
    IF \E i \in 1..Len(fp) : fp[i].id = id
    THEN (CHOOSE i \in 1..Len(fp) : fp[i].id = id /\ \A j \in 1..(i - 1) : fp[j].id # id) - 1
    ELSE -1

----------------------------------------------------------------------------
(* App handlers, local-fixture variant (src/minimized.tsx).  Each returns   *)
(* the next activeMedia and activeModal and whether the handler threw.      *)

Result(am, amo) == [media |-> am, modal |-> amo, threw |-> FALSE]

Thrown(am, amo) == [media |-> am, modal |-> amo, threw |-> TRUE]

NewMedia_minimized(post, index, time) == [post |-> post, index |-> index, mode |-> "minimized", currentTime |-> time]

NewMedia(post, index, time) == [post |-> post, index |-> index, mode |-> "modal", currentTime |-> time]

NewModal(post, index) == [post |-> post, index |-> index]

handleCardClick_mock_keepsModal(am, amo, fp, post) ==
    LET index == findIndex(fp, post.id)
    IN  IF index = -1 THEN Result(am, amo)
        ELSE IF isMediaPost(post.type)
        THEN IF am # NULL /\ am.post.id = post.id /\ am.mode = "minimized"
             THEN Result([am EXCEPT !.mode = "modal"], amo)
             ELSE Result(NewMedia(post, index, OrZero(post.initialTime)), amo)
        ELSE Result(am, NewModal(post, index))

handleCardClick_mock_restarts(am, amo, fp, post) ==
    LET index == findIndex(fp, post.id)
    IN  IF index = -1 THEN Result(am, amo)
        ELSE IF isMediaPost(post.type)
        THEN Result(NewMedia(post, index, OrZero(post.initialTime)), NULL)
        ELSE Result(am, NewModal(post, index))

handleCardClick_mock(am, amo, fp, post) ==
    LET index == findIndex(fp, post.id)
    IN  IF index = -1 THEN Result(am, amo)
        ELSE IF isMediaPost(post.type)
        THEN IF am # NULL /\ am.post.id = post.id /\ am.mode = "minimized"
             THEN Result([am EXCEPT !.mode = "modal"], NULL)
             ELSE Result(NewMedia(post, index, OrZero(post.initialTime)), NULL)
        ELSE Result(am, NewModal(post, index))

handleCloseMedia(am) == NULL

handleMinimizeMedia(am) == IF am # NULL THEN [am EXCEPT !.mode = "minimized"] ELSE NULL

handleRestoreMedia(am) == IF am # NULL THEN [am EXCEPT !.mode = "modal"] ELSE NULL

handleCloseModal_keeps(amo) == amo

handleCloseModal(amo) == NULL

\* const currentIndex = activeMedia?.index ?? activeModal?.index ?? -1
currentIndex_mock(am, amo) ==
    IF am # NULL THEN am.index ELSE IF amo # NULL THEN amo.index ELSE -1

handleNext_mock_fromStart(am, amo, fp) ==
    IF currentIndex_mock(am, amo) >= Len(fp) - 1 THEN Result(am, amo)
    ELSE LET newIndex == currentIndex_mock(am, amo) + 1
             nextPost == fp[newIndex + 1]
         IN  IF isMediaPost(nextPost.type)
             THEN Result(NewMedia(nextPost, newIndex, 0), NULL)
             ELSE Result(am, NewModal(nextPost, newIndex))

handleNext_mock(am, amo, fp) ==
    IF (am = NULL /\ amo = NULL) \/ currentIndex_mock(am, amo) >= Len(fp) - 1 THEN Result(am, amo)
    ELSE LET newIndex == currentIndex_mock(am, amo) + 1
             nextPost == fp[newIndex + 1]
         IN  IF isMediaPost(nextPost.type)
             THEN Result(NewMedia(nextPost, newIndex, 0), NULL)
             ELSE Result(am, NewModal(nextPost, newIndex))

\* filteredPosts[newIndex] is undefined when newIndex >= length, and reading
\* prevPost.type then throws a TypeError before any state is set
handlePrev_mock(am, amo, fp) ==
    IF (am = NULL /\ amo = NULL) \/ currentIndex_mock(am, amo) <= 0 THEN Result(am, amo)
    ELSE LET newIndex == currentIndex_mock(am, amo) - 1
         IN  IF newIndex >= Len(fp) THEN Thrown(am, amo)
             ELSE LET prevPost == fp[newIndex + 1]
                  IN  IF isMediaPost(prevPost.type)
                      THEN Result(NewMedia(prevPost, newIndex, 0), NULL)
                      ELSE Result(am, NewModal(prevPost, newIndex))

----------------------------------------------------------------------------
(* App handlers, remote-API variant (src/types.ts) *)

handleCardClick_api(am, amo, fp, post) ==
    LET index == findIndex(fp, post.id)
    IN  IF index = -1 THEN Result(am, amo)
        ELSE IF isMediaPost(post.type)
        THEN IF am # NULL /\ am.post.id = post.id /\ am.mode = "minimized"
             THEN Result([am EXCEPT !.mode = "modal"], NULL)
             ELSE Result(NewMedia(post, index, OrZero(post.initialTime)), NULL)
        ELSE Result(IF am # NULL /\ am.mode = "modal" THEN [am EXCEPT !.mode = "minimized"] ELSE am,
                    NewModal(post, index))

\* const currentItem = activeMedia?.mode === 'modal' ? activeMedia : activeModal
currentItem(am, amo) == IF am # NULL /\ am.mode = "modal" THEN am ELSE amo

handleNavigate_offByOne(am, amo, fp, direction) ==
    IF currentItem(am, amo) = NULL THEN Result(am, amo)
    ELSE LET currentIndex == currentItem(am, amo).index
             newIndex == IF direction = "next" THEN currentIndex + 1 ELSE currentIndex - 1
         IN  IF newIndex < 0 \/ newIndex >= Len(fp) - 1 THEN Result(am, amo)
             ELSE LET newPost == fp[newIndex + 1]
                  IN  IF isMediaPost(newPost.type)
                      THEN Result(NewMedia(newPost, newIndex, 0), NULL)
                      ELSE Result(IF am # NULL /\ am.mode = "modal"
                                  THEN [am EXCEPT !.mode = "minimized"] ELSE am,
                                  NewModal(newPost, newIndex))

handleNavigate(am, amo, fp, direction) ==
    IF currentItem(am, amo) = NULL THEN Result(am, amo)
    ELSE LET currentIndex == currentItem(am, amo).index
             newIndex == IF direction = "next" THEN currentIndex + 1 ELSE currentIndex - 1
         IN  IF newIndex < 0 \/ newIndex >= Len(fp) THEN Result(am, amo)
             ELSE LET newPost == fp[newIndex + 1]
                  IN  IF isMediaPost(newPost.type)
                      THEN Result(NewMedia(newPost, newIndex, 0), NULL)
                      ELSE Result(IF am # NULL /\ am.mode = "modal"
                                  THEN [am EXCEPT !.mode = "minimized"] ELSE am,
                                  NewModal(newPost, newIndex))

handleNext_api(am, amo, fp) == handleNavigate(am, amo, fp, "next")

handlePrev_api(am, amo, fp) == handleNavigate(am, amo, fp, "prev")

----------------------------------------------------------------------------
(* App render *)

\* hasNext / hasPrev props handed to MinimizedPlayer (activeMedia is non-null there)
hasNext(am, fp) == am.index < Len(fp) - 1

hasPrev(am, fp) == am.index > 0

\* The full-screen viewer on top: <Modal> is rendered after the player at the same z-index
TopItem(am, amo) ==
    IF amo # NULL THEN amo
    ELSE IF am # NULL THEN NewModal(am.post, am.index)
    ELSE NULL

----------------------------------------------------------------------------
(* MinimizedPlayer (src/types.ts) *)

\* HTMLMediaElement.play() / pause()
\* `pending`: the promise returned by play() is not settled yet; pause() settles it
play(md) == [md EXCEPT !.paused = FALSE, !.pending = TRUE]

pause(md) == [md EXCEPT !.paused = TRUE, !.pending = FALSE]

\* A media element whose src was just set (or that was just created): the
\* load algorithm leaves it paused at 0 with no metadata; there is no autoplay attribute
NewElement(post) ==
    [src |-> post.id, tag |-> post.type, paused |-> TRUE, currentTime |-> 0, duration |-> NaN,
     pending |-> FALSE]

\* useState initial values; `bound` is the data.currentTime captured by handleLoadedMetadata
InitialPlayer(am) ==
    [isPlaying |-> TRUE, progress |-> 0, duration |-> 0, currentTime |-> 0, bound |-> am.currentTime]

NoSession ==
    [metadata |-> NULL, playbackState |-> "none",
     play |-> NULL, pause |-> NULL, nexttrack |-> NULL, previoustrack |-> NULL]

mediaSessionEffect_stale(ss, am, fp) ==
    IF ss.play # NULL THEN ss
    ELSE [ss EXCEPT !.metadata = [title |-> am.post.title,
                                  artwork |-> IF am.post.coverUrl # "" THEN <<am.post.coverUrl>> ELSE <<>>],
                    !.play = [fn |-> "togglePlay", item |-> am.post.id],
                    !.pause = [fn |-> "togglePlay", item |-> am.post.id],
                    !.nexttrack = [fn |-> "handleNext", item |-> am.post.id, enabled |-> hasNext(am, fp)],
                    !.previoustrack = [fn |-> "handlePrev", item |-> am.post.id, enabled |-> hasPrev(am, fp)]]

\* Effect for Media Session API: metadata and action handlers
mediaSessionEffect(ss, am, fp) ==
    [ss EXCEPT !.metadata = [title |-> am.post.title,
                             artwork |-> IF am.post.coverUrl # "" THEN <<am.post.coverUrl>> ELSE <<>>],
               !.play = [fn |-> "togglePlay", item |-> am.post.id],
               !.pause = [fn |-> "togglePlay", item |-> am.post.id],
               !.nexttrack = [fn |-> "handleNext", item |-> am.post.id, enabled |-> hasNext(am, fp)],
               !.previoustrack = [fn |-> "handlePrev", item |-> am.post.id, enabled |-> hasPrev(am, fp)]]

mediaSessionCleanup_keepsHandlers(ss) == ss

mediaSessionCleanup(ss) ==
    [ss EXCEPT !.play = NULL, !.pause = NULL, !.nexttrack = NULL, !.previoustrack = NULL]

playbackStateEffect_alwaysPlaying(ss, isPlaying) == [ss EXCEPT !.playbackState = "playing"]

\* Effect for Media Session API: playback state
playbackStateEffect(ss, isPlaying) ==
    [ss EXCEPT !.playbackState = IF isPlaying THEN "playing" ELSE "paused"]

\* Final cleanup for media session on component unmount
finalCleanup(ss) == [ss EXCEPT !.metadata = NULL, !.playbackState = "none"]

Rendered(pl, md, ss) == [player |-> pl, media |-> md, session |-> ss]

\* First render of the component and its effects, in declaration order
MountPlayer(am, ss, fp) ==
    Rendered(InitialPlayer(am),
             play(NewElement(am.post)),
             playbackStateEffect(mediaSessionEffect(ss, am, fp), TRUE))

UnmountPlayer(ss) == Rendered(NULL, NULL, finalCleanup(mediaSessionCleanup(ss)))

UpdatePlayer_resetsAlways(old, new, pl, md, ss, fp) ==
    LET md1 == IF new # old THEN [NewElement(new.post) EXCEPT !.pending = md.pending] ELSE md
        pl1 == IF new # old THEN InitialPlayer(new) ELSE pl
    IN  Rendered(pl1,
                 IF new # old THEN play(md1) ELSE md1,
                 playbackStateEffect(mediaSessionEffect(ss, new, fp), pl1.isPlaying))

\* Re-render with new props and the effects whose dependencies changed
UpdatePlayer(old, new, pl, md, ss, fp) ==
    LET idChanged == new.post.id # old.post.id
        modeChanged == new.mode # old.mode
        \* src attribute (or element type) changes with the post; a play() promise
        \* still unsettled keeps its catch handler on this component
        md1 == IF idChanged THEN [NewElement(new.post) EXCEPT !.pending = md.pending] ELSE md
        \* effect [data.mode, isPlaying, isMedia]
        md2 == IF modeChanged /\ new.mode = "modal" /\ pl.isPlaying /\ md1.paused THEN play(md1) ELSE md1
        \* effect [post._id, isMedia]
        pl1 == IF idChanged THEN InitialPlayer(new) ELSE pl
        playingChanged == pl1.isPlaying # pl.isPlaying
        \* effect [isPlaying, isMedia], run by the re-render that setIsPlaying(true) causes
        md3 == IF playingChanged THEN play(md2) ELSE md2
        ss1 == mediaSessionEffect(ss, new, fp)
        ss2 == IF playingChanged THEN playbackStateEffect(ss1, pl1.isPlaying) ELSE ss1
    IN  Rendered(pl1, md3, ss2)

Commit_remounts(old, new, pl, md, ss, fp) ==
    IF new = NULL
    THEN IF old = NULL THEN Rendered(pl, md, ss) ELSE UnmountPlayer(ss)
    ELSE MountPlayer(new, ss, fp)

\* What mounting, updating or unmounting <MinimizedPlayer> does when the App re-renders
Commit(old, new, pl, md, ss, fp) ==
    IF new = NULL
    THEN IF old = NULL THEN Rendered(pl, md, ss) ELSE UnmountPlayer(ss)
    ELSE IF old = NULL THEN MountPlayer(new, ss, fp)
    ELSE UpdatePlayer(old, new, pl, md, ss, fp)

----------------------------------------------------------------------------
(* Inputs: catalogs and queries *)

Post(id, type, title, description, noteText, quoteText, initialTime, coverUrl) ==
    [id |-> id, type |-> type, title |-> title, description |-> description,
     noteText |-> noteText, quoteText |-> quoteText, initialTime |-> initialTime,
     coverUrl |-> coverUrl]

v1 == Post("v1", "video", <<"A", "b">>, NoText, NoText, NoText, NoNumber, "cover1")

n1 == Post("n1", "note", <<"b">>, NoText, Some(<<"B">>), NoText, NoNumber, "")

a1 == Post("a1", "audio", <<"a">>, Some(<<"a", "a">>), NoText, NoText, Some(1), "")

q1 == Post("q1", "quote", <<"B", "b">>, NoText, NoText, Some(<<"A">>), NoNumber, "")

\* The catalogs a load can deliver: playable and non-playable items in different orders
Catalogs == {<<>>, <<v1, n1, a1>>, <<a1, v1, n1>>, <<n1, q1, v1>>}

Queries == {<<>>, <<"a">>, <<"B">>, <<"a", "a">>}

----------------------------------------------------------------------------
(* Catalog load: localStorage cache and fetch *)

\* JSON.parse(cachedData) gave something that is not an array ({}, null, 5, ...):
\* a value apart from every catalog, on which filter and map do not exist
NotAList == <<Post("", "notAList", <<>>, NoText, NoText, NoText, NoNumber, "")>>

\* getItem returns null (or '')
NoCache == [kind |-> "none", items |-> <<>>]

\* getItem returns JSON.stringify(ps)
CachedList(ps) == [kind |-> "list", items |-> ps]

\* "unreadable": getItem throws; "garbled": JSON.parse throws; "notlist": it parses to NotAList
CacheContents ==
    {NoCache, [kind |-> "unreadable", items |-> <<>>], [kind |-> "garbled", items |-> <<>>],
     [kind |-> "notlist", items |-> <<>>]}
    \cup {CachedList(c) : c \in Catalogs}

\* step 1 of the load effect: `posts` and `isLoading` as the try/catch leaves them
readCache(ch, ps) ==
    IF ch.kind = "list" THEN [posts |-> ch.items, isLoading |-> FALSE]
    ELSE IF ch.kind = "notlist" THEN [posts |-> NotAList, isLoading |-> FALSE]
    ELSE [posts |-> ps, isLoading |-> TRUE]

\* the App's render throws: posts.filter is not a function under a query, or
\* <Gallery> calls posts.map on something that is not an array
RenderThrows(ps, q, loading, err) == ps = NotAList /\ (q # <<>> \/ (~loading /\ err = NULL))

\* what <main> shows
View ==
    IF crashed THEN "crashed"
    ELSE IF isLoading THEN "loading"
    ELSE IF error # NULL THEN "error"
    ELSE "gallery"

\* `write`: "ok" / "failed" once localStorage.setItem was called, "" while it was not
NoLoad == [phase |-> "idle", read |-> "", outcome |-> "", fresh |-> <<>>, write |-> ""]

----------------------------------------------------------------------------
(* The gallery state machine *)

NoTrip == [stage |-> "none", p |-> 0, list |-> <<>>]

\* no second App component is followed
NoTwin == [on |-> FALSE, media |-> NULL, modal |-> NULL]

\* What was active just before the handler ran
Before ==
    [media |-> IF activeMedia = NULL THEN "" ELSE activeMedia.post.id,
     mode |-> IF activeMedia = NULL THEN "" ELSE activeMedia.mode,
     modal |-> IF activeModal = NULL THEN "" ELSE activeModal.post.id,
     isPlaying |-> player # NULL /\ player.isPlaying,
     currentTime |-> IF player = NULL THEN 0 ELSE player.currentTime]

Op(name, arg, threw) == [name |-> name, arg |-> arg, threw |-> threw, before |-> Before]

Init ==
    /\ variant \in {"mock", "api"}
    /\ posts \in Catalogs
    /\ searchQuery = <<>>
    /\ activeMedia = NULL
    /\ activeModal = NULL
    /\ player = NULL
    /\ media = NULL
    /\ session = NoSession
    /\ isLoading = FALSE
    /\ error = NULL
    /\ cache = NoCache
    /\ load = [phase |-> "done", read |-> "none", outcome |-> "ok", fresh |-> posts, write |-> ""]
    /\ crashed = FALSE
    /\ lastOp = [name |-> "init", arg |-> "", threw |-> FALSE,
                 before |-> [media |-> "", mode |-> "", modal |-> "", isPlaying |-> FALSE, currentTime |-> 0]]
    /\ trip = NoTrip
    /\ touchStart = NULL
    /\ swiped = <<>>
    /\ twin = NoTwin

\* the handler of App component v for the event `name`
Handle(v, name, am, amo, fp, post) ==
    CASE name = "cardClick" -> IF v = "mock" THEN handleCardClick_mock(am, amo, fp, post)
                               ELSE handleCardClick_api(am, amo, fp, post)
      [] name = "next" -> IF v = "mock" THEN handleNext_mock(am, amo, fp) ELSE handleNext_api(am, amo, fp)
      [] name = "prev" -> IF v = "mock" THEN handlePrev_mock(am, amo, fp) ELSE handlePrev_api(am, amo, fp)
      [] name = "closeMedia" -> Result(handleCloseMedia(am), amo)
      [] name = "minimize" -> Result(handleMinimizeMedia(am), amo)
      [] name = "restore" -> Result(handleRestoreMedia(am), amo)
      [] name = "closeModal" -> Result(am, handleCloseModal(amo))

\* the other App component handles the same event over the same filtered list
TwinStep(name, post) ==
    IF ~twin.on THEN twin
    ELSE LET r == Handle(IF variant = "mock" THEN "api" ELSE "mock", name,
                         twin.media, twin.modal, filteredPosts(posts, searchQuery), post)
         IN  [on |-> TRUE, media |-> r.media, modal |-> r.modal]

\* Apply a handler's result r and re-render under the (possibly new) query q
Apply(r, q) ==
    LET c == Commit(activeMedia, r.media, player, media, session, filteredPosts(posts, q))
    IN  /\ ~crashed
        /\ crashed' = RenderThrows(posts, q, isLoading, error)
        /\ activeMedia' = r.media
        /\ activeModal' = r.modal
        /\ searchQuery' = q
        /\ player' = c.player
        /\ media' = c.media
        /\ session' = c.session
        /\ UNCHANGED <<variant, posts, loadvars, swipevars>>

CardClick(post) ==
    LET fp == filteredPosts(posts, searchQuery)
        r == IF variant = "mock" THEN handleCardClick_mock(activeMedia, activeModal, fp, post)
             ELSE handleCardClick_api(activeMedia, activeModal, fp, post)
    IN  /\ Apply(r, searchQuery)
        /\ lastOp' = Op("cardClick", post.id, r.threw)
        /\ twin' = TwinStep("cardClick", post)
        /\ trip' = NoTrip

Next_ ==
    LET fp == filteredPosts(posts, searchQuery)
        r == IF variant = "mock" THEN handleNext_mock(activeMedia, activeModal, fp)
             ELSE handleNext_api(activeMedia, activeModal, fp)
        top == TopItem(activeMedia, activeModal)
    IN  /\ Apply(r, searchQuery)
        /\ lastOp' = Op("next", "", r.threw)
        /\ twin' = TwinStep("next", NULL)
        /\ trip' = IF /\ (activeMedia = NULL) # (activeModal = NULL)
                      /\ top.index + 1 < Len(fp)
                      /\ fp[top.index + 1] = top.post
                   THEN [stage |-> "next", p |-> top.index, list |-> fp]
                   ELSE NoTrip

Prev_ ==
    LET fp == filteredPosts(posts, searchQuery)
        r == IF variant = "mock" THEN handlePrev_mock(activeMedia, activeModal, fp)
             ELSE handlePrev_api(activeMedia, activeModal, fp)
    IN  /\ Apply(r, searchQuery)
        /\ lastOp' = Op("prev", "", r.threw)
        /\ twin' = TwinStep("prev", NULL)
        /\ trip' = IF trip.stage = "next" /\ trip.list = fp
                   THEN [trip EXCEPT !.stage = "prev"]
                   ELSE NoTrip

CloseMedia ==
    /\ Apply(Result(handleCloseMedia(activeMedia), activeModal), searchQuery)
    /\ lastOp' = Op("closeMedia", IF activeMedia = NULL THEN "" ELSE activeMedia.mode, FALSE)
    /\ twin' = TwinStep("closeMedia", NULL)
    /\ trip' = NoTrip

MinimizeMedia ==
    /\ Apply(Result(handleMinimizeMedia(activeMedia), activeModal), searchQuery)
    /\ lastOp' = Op("minimize", "", FALSE)
    /\ twin' = TwinStep("minimize", NULL)
    /\ trip' = NoTrip

RestoreMedia ==
    /\ Apply(Result(handleRestoreMedia(activeMedia), activeModal), searchQuery)
    /\ lastOp' = Op("restore", "", FALSE)
    /\ twin' = TwinStep("restore", NULL)
    /\ trip' = NoTrip

CloseModal ==
    /\ Apply(Result(activeMedia, handleCloseModal(activeModal)), searchQuery)
    /\ lastOp' = Op("closeModal", "", FALSE)
    /\ twin' = TwinStep("closeModal", NULL)
    /\ trip' = NoTrip

\* handleSearchChange / handleClearSearch
SearchChange(q) ==
    /\ q # searchQuery
    /\ Apply(Result(activeMedia, activeModal), q)
    /\ lastOp' = Op("search", "", FALSE)
    /\ twin' = twin
    /\ trip' = NoTrip

ClearSearch ==
    /\ Apply(Result(activeMedia, activeModal), <<>>)
    /\ lastOp' = Op("clearSearch", "", FALSE)
    /\ twin' = twin
    /\ trip' = NoTrip

\* setIsPlaying(v) and the effects that depend on isPlaying
setIsPlaying(pl, md, ss, v) ==
    IF v = pl.isPlaying THEN Rendered(pl, md, ss)
    ELSE Rendered([pl EXCEPT !.isPlaying = v],
                  IF v THEN play(md) ELSE pause(md),
                  playbackStateEffect(ss, v))

PlayerStep(c, name) ==
    /\ player' = c.player
    /\ media' = c.media
    /\ session' = c.session
    /\ lastOp' = Op(name, "", FALSE)
    /\ trip' = NoTrip
    /\ UNCHANGED <<variant, posts, searchQuery, activeMedia, activeModal, loadvars, crashed, swipevars, twin>>

\* togglePlay: setIsPlaying(prev => !prev)
TogglePlay ==
    /\ player # NULL
    /\ PlayerStep(setIsPlaying(player, media, session, ~player.isPlaying), "togglePlay")

\* 'loadedmetadata' fires once the element knows the duration d of its resource
handleLoadedMetadata(d) ==
    /\ player # NULL
    /\ media.duration = NaN
    /\ LET md1 == [media EXCEPT !.duration = d]
           md2 == IF player.bound # 0
                  THEN [md1 EXCEPT !.currentTime = IF isFinite(d) /\ player.bound > d THEN d ELSE player.bound]
                  ELSE md1
       IN  PlayerStep(Rendered([player EXCEPT !.duration = d], md2, session), "loadedmetadata")

\* 'timeupdate': the playback clock advanced by adv (the element loops at its end)
handleTimeUpdate(adv) ==
    /\ player # NULL
    /\ media.duration # NaN
    /\ adv = 1 => ~media.paused
    /\ LET t == IF adv = 0 THEN media.currentTime
                ELSE IF isFinite(media.duration)
                     THEN (IF media.currentTime + 1 > media.duration THEN 0 ELSE media.currentTime + 1)
                     ELSE (IF media.currentTime < MaxTime THEN media.currentTime + 1 ELSE media.currentTime)
           md1 == [media EXCEPT !.currentTime = t]
           pl1 == IF ~isFinite(media.duration) THEN player
                  ELSE [player EXCEPT !.currentTime = t, !.progress = (t * 100) \div media.duration]
       IN  PlayerStep(Rendered(pl1, md1, session), "timeupdate")

\* 'play' / 'pause' fired because playback was started or stopped outside the
\* component (native controls, the platform): handlePlay / handlePause
handlePlayPause ==
    /\ player # NULL
    /\ LET md1 == [media EXCEPT !.paused = ~media.paused]
       IN  PlayerStep(setIsPlaying(player, md1, session, ~md1.paused), "playPauseEvent")

\* the promise of the last play() resolves: the host started playback
PlayResolved ==
    /\ player # NULL
    /\ media.pending
    /\ PlayerStep(Rendered(player, [media EXCEPT !.pending = FALSE], session), "playResolved")

playRejected_ignored(pl, md, ss) == Rendered(pl, [md EXCEPT !.paused = TRUE, !.pending = FALSE], ss)

\* media.play().catch(() => setIsPlaying(false)): the element did not start
playRejected(pl, md, ss) == setIsPlaying(pl, [md EXCEPT !.paused = TRUE, !.pending = FALSE], ss, FALSE)

\* the promise of the last play() rejects (autoplay blocked, load aborted)
PlayRejected ==
    /\ player # NULL
    /\ media.pending
    /\ PlayerStep(playRejected(player, media, session), "playRejected")

Min(a, b) == IF a < b THEN a ELSE b

Max(a, b) == IF a > b THEN a ELSE b

handleSeek_unclamped(md, clientX) ==
    IF md.tag = "audio" /\ isFinite(md.duration)
    THEN [md EXCEPT !.currentTime = (clientX * md.duration) \div BarWidth]
    ELSE md

\* handleSeek for a click at clientX on a bar whose left edge is at 0; only the
\* audio layouts render the progress bar (progressBarRef is null for video).
\* percentage * duration is clamp(clickX, 0, width) * duration / width, here
\* rounded down to the model's whole time units
handleSeek(md, clientX) ==
    IF md.tag = "audio" /\ isFinite(md.duration)
    THEN LET clickX == clientX
             clamped == Max(0, Min(BarWidth, clickX))
         IN  [md EXCEPT !.currentTime = (clamped * md.duration) \div BarWidth]
    ELSE md

Seek(clientX) ==
    /\ player # NULL
    /\ media.tag = "audio"
    /\ player' = player
    /\ media' = handleSeek(media, clientX)
    /\ session' = session
    /\ lastOp' = Op("seek", clientX, FALSE)
    /\ trip' = NoTrip
    /\ UNCHANGED <<variant, posts, searchQuery, activeMedia, activeModal, loadvars, crashed, swipevars, twin>>

\* the host surface invokes the registered 'play' / 'pause' action handler
SessionPlayPause(action) ==
    /\ (IF action = "play" THEN session.play ELSE session.pause) # NULL
    /\ PlayerStep(setIsPlaying(player, media, session, ~player.isPlaying),
                  IF action = "play" THEN "signalPlay" ELSE "signalPause")

\* the host surface invokes the registered 'nexttrack' / 'previoustrack'
\* action handler: if (hasNext) onNext() / if (hasPrev) onPrev()
SessionTrack(action) ==
    LET handler == IF action = "nexttrack" THEN session.nexttrack ELSE session.previoustrack
        fp == filteredPosts(posts, searchQuery)
        r == IF ~handler.enabled THEN Result(activeMedia, activeModal)
             ELSE IF action = "nexttrack"
             THEN (IF variant = "mock" THEN handleNext_mock(activeMedia, activeModal, fp)
                   ELSE handleNext_api(activeMedia, activeModal, fp))
             ELSE (IF variant = "mock" THEN handlePrev_mock(activeMedia, activeModal, fp)
                   ELSE handlePrev_api(activeMedia, activeModal, fp))
    IN  /\ handler # NULL
        /\ Apply(r, searchQuery)
        /\ lastOp' = Op(IF action = "nexttrack" THEN "signalNext" ELSE "signalPrev", "", r.threw)
        /\ twin' = twin
        /\ trip' = NoTrip

Next ==
    \/ \E i \in 1..Len(filteredPosts(posts, searchQuery)) : CardClick(filteredPosts(posts, searchQuery)[i])
    \/ Next_
    \/ Prev_
    \/ CloseMedia
    \/ MinimizeMedia
    \/ RestoreMedia
    \/ CloseModal
    \/ \E q \in Queries : SearchChange(q)
    \/ ClearSearch
    \/ TogglePlay
    \/ \E d \in {MaxTime, Infinity} : handleLoadedMetadata(d)
    \/ \E adv \in {0, 1} : handleTimeUpdate(adv)
    \/ handlePlayPause

Spec == Init /\ [][Next]_vars

----------------------------------------------------------------------------
(* The player under host events: promise settlement, seeking, media keys *)

\* catalogs with both playable kinds and a non-playable item, shown unfiltered
InitPlayer == Init /\ posts \in {<<a1, v1, n1>>, <<v1, n1, a1>>}

NextPlayer ==
    \/ \E i \in 1..Len(filteredPosts(posts, searchQuery)) : CardClick(filteredPosts(posts, searchQuery)[i])
    \/ Next_
    \/ Prev_
    \/ CloseMedia
    \/ MinimizeMedia
    \/ RestoreMedia
    \/ CloseModal
    \/ TogglePlay
    \/ \E d \in {MaxTime, Infinity} : handleLoadedMetadata(d)
    \/ \E adv \in {0, 1} : handleTimeUpdate(adv)
    \/ handlePlayPause
    \/ PlayResolved
    \/ PlayRejected
    \/ \E clientX \in (-1)..(BarWidth + 1) : Seek(clientX)
    \/ \E action \in {"play", "pause"} : SessionPlayPause(action)
    \/ \E action \in {"nexttrack", "previoustrack"} : SessionTrack(action)

SpecPlayer == InitPlayer /\ [][NextPlayer]_vars

----------------------------------------------------------------------------
(* The load effect on its own *)

\* useEffect(() => { 1. read the cache  2. start the load }, [])
LoadEffect ==
    LET rd == readCache(cache, posts)
        \* fetchPostsFromApi starts with setIsLoading(true); setError(null) in the same batch
        loading == IF variant = "api" THEN TRUE ELSE rd.isLoading
    IN  /\ load.phase = "idle"
        /\ ~crashed
        /\ posts' = rd.posts
        /\ isLoading' = loading
        /\ error' = NULL
        /\ crashed' = RenderThrows(rd.posts, searchQuery, loading, NULL)
        /\ load' = [load EXCEPT !.phase = "pending", !.read = cache.kind]
        /\ lastOp' = Op("loadEffect", "", FALSE)
        /\ trip' = NoTrip
        /\ UNCHANGED <<variant, searchQuery, activeMedia, activeModal, player, media, session, cache, swipevars, twin>>

\* the setTimeout callback of the fixture load; `stored`: localStorage.setItem
\* did not throw.  State setters do nothing once the tree is gone
MockTimeout(mockPosts, stored) ==
    /\ variant = "mock"
    /\ load.phase = "pending"
    /\ IF crashed THEN UNCHANGED <<posts, isLoading>>
       ELSE posts' = mockPosts /\ isLoading' = FALSE
    /\ cache' = IF stored /\ cache.kind # "unreadable" THEN CachedList(mockPosts) ELSE cache
    /\ load' = [load EXCEPT !.phase = "done", !.outcome = "ok", !.fresh = mockPosts,
                            !.write = IF stored /\ cache.kind # "unreadable" THEN "ok" ELSE "failed"]
    /\ lastOp' = Op("mockTimeout", "", FALSE)
    /\ trip' = NoTrip
    /\ UNCHANGED <<variant, searchQuery, activeMedia, activeModal, player, media, session, error, crashed, swipevars, twin>>

\* fetchPostsFromApi after `await fetch(url)`: "result" (data.result is the
\* list), "noresult" (data.result is missing), "httpError" (!response.ok),
\* "networkError" (fetch rejected)
FetchSettled(outcome, result) ==
    LET failed == outcome \in {"httpError", "networkError"}
        ps == IF outcome = "result" THEN result ELSE posts
        err == IF failed THEN [message |-> outcome] ELSE error
    IN  /\ variant = "api"
        /\ load.phase = "pending"
        /\ IF crashed THEN UNCHANGED <<posts, isLoading, error, crashed>>
           ELSE /\ posts' = ps
                /\ error' = err
                /\ isLoading' = FALSE
                /\ crashed' = RenderThrows(ps, searchQuery, FALSE, err)
        /\ load' = [load EXCEPT !.phase = "done",
                                !.outcome = IF outcome = "result" THEN "ok" ELSE outcome,
                                !.fresh = IF outcome = "result" THEN result ELSE <<>>]
        /\ lastOp' = Op("fetchSettled", "", FALSE)
        /\ trip' = NoTrip
        /\ UNCHANGED <<variant, searchQuery, activeMedia, activeModal, player, media, session, cache, swipevars, twin>>

InitLoad ==
    /\ variant \in {"mock", "api"}
    /\ posts = <<>>
    /\ searchQuery = <<>>
    /\ activeMedia = NULL
    /\ activeModal = NULL
    /\ player = NULL
    /\ media = NULL
    /\ session = NoSession
    /\ isLoading = TRUE
    /\ error = NULL
    /\ cache \in CacheContents
    /\ load = NoLoad
    /\ crashed = FALSE
    /\ lastOp = [name |-> "init", arg |-> "", threw |-> FALSE,
                 before |-> [media |-> "", mode |-> "", modal |-> "", isPlaying |-> FALSE, currentTime |-> 0]]
    /\ trip = NoTrip
    /\ touchStart = NULL
    /\ swiped = <<>>
    /\ twin = NoTwin

NextLoad ==
    \/ LoadEffect
    \/ \E c \in Catalogs, stored \in BOOLEAN : MockTimeout(c, stored)
    \/ \E c \in Catalogs : FetchSettled("result", c)
    \/ \E outcome \in {"noresult", "httpError", "networkError"} : FetchSettled(outcome, <<>>)
    \/ \E q \in Queries : SearchChange(q)
    \/ ClearSearch

SpecLoad == InitLoad /\ [][NextLoad]_vars

\* the timer of the fixture load fires
TimerFires == \E c \in Catalogs, stored \in BOOLEAN : MockTimeout(c, stored)

\* the fetch (and the reading of its body) resolves or rejects
FetchSettles ==
    \/ \E c \in Catalogs : FetchSettled("result", c)
    \/ \E outcome \in {"noresult", "httpError", "networkError"} : FetchSettled(outcome, <<>>)

\* React runs the mount effect, the event loop runs a due timer callback, and
\* the request is one that settles
SpecLoadFair ==
    /\ SpecLoad
    /\ WF_vars(LoadEffect)
    /\ WF_vars(TimerFires)
    /\ WF_vars(FetchSettles)

----------------------------------------------------------------------------
(* The filter on its own: catalogs and queries over a small alphabet *)

MaxText == 2

FilterChars == {"a", "A", "b"}

RECURSIVE Texts(_)
\* every string over FilterChars of at most n characters
Texts(n) == IF n = 0 THEN {<<>>} ELSE {<<>>} \cup {<<c>> \o t : c \in FilterChars, t \in Texts(n - 1)}

\* a post that carries text x in one field (an empty title otherwise)
FilterPost(id, field, x) ==
    Post(id, "note",
         IF field = "title" THEN x ELSE <<>>,
         IF field = "description" THEN Some(x) ELSE NoText,
         IF field = "noteText" THEN Some(x) ELSE NoText,
         IF field = "quoteText" THEN Some(x) ELSE NoText,
         NoNumber, "")

Fields == {"title", "description", "noteText", "quoteText"}

\* a post with a title and a description of at most one character each
TwoFieldPost(x, y) == Post("f1", "note", x, Some(y), NoText, NoText, NoNumber, "")

FilterCatalogs ==
    {<<>>}
    \cup {<<TwoFieldPost(x, y)>> : x \in Texts(1), y \in Texts(1)}
    \cup {<<FilterPost("f1", f, x)>> : f \in Fields, x \in Texts(MaxText)}
    \cup {<<FilterPost("f1", f, x), FilterPost("f2", "title", <<"a", "b">>)>> : f \in Fields, x \in Texts(MaxText)}
    \cup {<<FilterPost("f1", "noteText", <<"A">>), FilterPost("f2", f, x), FilterPost("f3", "quoteText", <<"A", "b">>)>> :
              f \in Fields, x \in Texts(MaxText)}

InitFilter ==
    /\ variant \in {"mock", "api"}
    /\ posts \in FilterCatalogs
    /\ searchQuery = <<>>
    /\ activeMedia = NULL
    /\ activeModal = NULL
    /\ player = NULL
    /\ media = NULL
    /\ session = NoSession
    /\ isLoading = FALSE
    /\ error = NULL
    /\ cache = NoCache
    /\ load = [phase |-> "done", read |-> "none", outcome |-> "ok", fresh |-> posts, write |-> ""]
    /\ crashed = FALSE
    /\ lastOp = [name |-> "init", arg |-> "", threw |-> FALSE,
                 before |-> [media |-> "", mode |-> "", modal |-> "", isPlaying |-> FALSE, currentTime |-> 0]]
    /\ trip = NoTrip
    /\ touchStart = NULL
    /\ swiped = <<>>
    /\ twin = NoTwin

NextFilter ==
    \/ \E q \in Texts(MaxText) : SearchChange(q)
    \/ ClearSearch

SpecFilter == InitFilter /\ [][NextFilter]_vars

----------------------------------------------------------------------------
(* The two App components side by side, driven by the same events *)

InitTwin ==
    /\ variant \in {"mock", "api"}
    /\ posts \in {<<v1, n1, a1>>, <<n1, q1, v1>>}
    /\ searchQuery = <<>>
    /\ activeMedia = NULL
    /\ activeModal = NULL
    /\ player = NULL
    /\ media = NULL
    /\ session = NoSession
    /\ isLoading = FALSE
    /\ error = NULL
    /\ cache = NoCache
    /\ load = [phase |-> "done", read |-> "none", outcome |-> "ok", fresh |-> posts, write |-> ""]
    /\ crashed = FALSE
    /\ lastOp = [name |-> "init", arg |-> "", threw |-> FALSE,
                 before |-> [media |-> "", mode |-> "", modal |-> "", isPlaying |-> FALSE, currentTime |-> 0]]
    /\ trip = NoTrip
    /\ touchStart = NULL
    /\ swiped = <<>>
    /\ twin = [on |-> TRUE, media |-> NULL, modal |-> NULL]

NextTwin ==
    \/ \E i \in 1..Len(filteredPosts(posts, searchQuery)) : CardClick(filteredPosts(posts, searchQuery)[i])
    \/ Next_
    \/ Prev_
    \/ CloseMedia
    \/ MinimizeMedia
    \/ RestoreMedia
    \/ CloseModal
    \/ \E q \in {<<"a">>, <<"B">>} : SearchChange(q)
    \/ ClearSearch

SpecTwin == InitTwin /\ [][NextTwin]_vars

----------------------------------------------------------------------------
(* useSwipe: the touch handlers Modal and MinimizedPlayer attach *)

\* Minimum distance (in pixels) for a swipe to be registered
MIN_SWIPE_DISTANCE == 50

\* Maximum time (in milliseconds) for a swipe
MAX_SWIPE_TIME == 500

\* Math.abs
Abs(n) == IF n < 0 THEN -n ELSE n

\* onTouchStart: only single-finger touches are tracked
onTouchStart(touches, x, y, time) ==
    IF touches # 1 THEN NULL ELSE [x |-> x, y |-> y, time |-> time]

\* onTouchEnd: the new touchStart and the callbacks invoked
onTouchEnd(ts, changedTouches, x, y, time) ==
    IF ts = NULL \/ changedTouches # 1 THEN [touchStart |-> ts, calls |-> <<>>]
    ELSE LET dx == x - ts.x
             dy == y - ts.y
             dt == time - ts.time
             absDx == Abs(dx)
             absDy == Abs(dy)
         IN  IF dt > MAX_SWIPE_TIME THEN [touchStart |-> NULL, calls |-> <<>>]
             ELSE IF Max(absDx, absDy) > MIN_SWIPE_DISTANCE
             THEN [touchStart |-> NULL,
                   calls |-> IF absDx > absDy
                             THEN (IF dx > 0 THEN <<"Right">> ELSE <<"Left">>)
                             ELSE (IF dy > 0 THEN <<"Down">> ELSE <<"Up">>)]
             ELSE [touchStart |-> NULL, calls |-> <<>>]

\* onTouchCancel
onTouchCancel(ts) == NULL

\* how far around a threshold the touch coordinates and times are drawn
Slack == 1

Near(c) == (c - Slack)..(c + Slack)

Displacements == Near(-MIN_SWIPE_DISTANCE) \cup {0} \cup Near(MIN_SWIPE_DISTANCE)

Durations == {0} \cup Near(MAX_SWIPE_TIME)

SwipeStep(name, arg) ==
    /\ lastOp' = Op(name, arg, FALSE)
    /\ trip' = NoTrip
    /\ UNCHANGED <<variant, appvars, cache, load, crashed, twin>>

TouchStart(touches, x, y, time) ==
    /\ touchStart' = onTouchStart(touches, x, y, time)
    /\ swiped' = <<>>
    /\ SwipeStep("touchStart", [touches |-> touches, x |-> x, y |-> y, time |-> time])

\* the finger lifts at (x, y) at clock reading `time`, never before the touch began
TouchEnd(changedTouches, x, y, time) ==
    LET r == onTouchEnd(touchStart, changedTouches, x, y, time)
    IN  /\ touchStart # NULL => time >= touchStart.time
        /\ touchStart' = r.touchStart
        /\ swiped' = r.calls
        /\ SwipeStep("touchEnd", [changedTouches |-> changedTouches, x |-> x, y |-> y, time |-> time])

TouchCancel ==
    /\ touchStart' = onTouchCancel(touchStart)
    /\ swiped' = <<>>
    /\ SwipeStep("touchCancel", "")

InitSwipe == Init /\ posts = <<>>

NextSwipe ==
    \/ \E touches \in 1..2, x \in 0..Slack, y \in 0..Slack : TouchStart(touches, x, y, 0)
    \* the tracked finger lifts
    \/ \E dx \in Displacements, dy \in Displacements, dt \in Durations :
           /\ touchStart # NULL
           /\ TouchEnd(1, touchStart.x + dx, touchStart.y + dy, touchStart.time + dt)
    \* a touch ends while none is tracked, or two fingers lift at once
    \/ \E changedTouches \in 1..2 :
           /\ touchStart = NULL \/ changedTouches = 2
           /\ TouchEnd(changedTouches, 0, 0, 0)
    \/ TouchCancel

SpecSwipe == InitSwipe /\ [][NextSwipe]_vars

----------------------------------------------------------------------------
(* Vocabulary of the properties *)

Playable(type) == type \in {"video", "audio"}

FP == filteredPosts(posts, searchQuery)

PostById(id) == CHOOSE p \in {posts[i] : i \in 1..Len(posts)} : p.id = id

\* the position navigation steps from, as each variant computes it (-1: none)
currentIndex ==
    IF variant = "mock" THEN currentIndex_mock(activeMedia, activeModal)
    ELSE IF currentItem(activeMedia, activeModal) = NULL THEN -1
         ELSE currentItem(activeMedia, activeModal).index

Top == TopItem(activeMedia, activeModal)

----------------------------------------------------------------------------
(* C1 *)

\* C1 as stated: in every reachable state at most one item is active, i.e.
\* activeMedia and activeModal are never both set.
C1_AtMostOneActive == ~(activeMedia # NULL /\ activeModal # NULL)

\* C1 as amended: activeMedia only ever holds a playable item and activeModal a
\* non-playable one (so at most one of each is active, and both can be held at
\* once); a card click on a playable item leaves that item as the only active
\* item in the same step, a card click on a non-playable item makes it the
\* non-playable active item in the same step, and whenever a card click or a
\* navigation puts a new full-screen playable item into activeMedia, activeModal
\* is null after that step.
C1_OpenReplacesInSameStep ==
    /\ [](/\ (activeMedia # NULL => Playable(activeMedia.post.type))
          /\ (activeModal # NULL => ~Playable(activeModal.post.type)))
    /\ [][/\ lastOp'.name = "cardClick" /\ Playable(PostById(lastOp'.arg).type)
             => /\ activeMedia' # NULL
                /\ activeMedia'.post = PostById(lastOp'.arg)
                /\ activeMedia'.mode = "modal"
                /\ activeModal' = NULL
          /\ lastOp'.name = "cardClick" /\ ~Playable(PostById(lastOp'.arg).type)
             => /\ activeModal' # NULL
                /\ activeModal'.post = PostById(lastOp'.arg)
          /\ lastOp'.name \in {"cardClick", "next", "prev"}
                /\ activeMedia' # activeMedia /\ activeMedia' # NULL /\ activeMedia'.mode = "modal"
             => activeModal' = NULL]_vars

\* a card click on a playable item replaced a non-playable item and a different playable one
C1_Witness ==
    /\ lastOp.name = "cardClick"
    /\ lastOp.before.modal # ""
    /\ lastOp.before.media \notin {"", lastOp.arg}
    /\ activeMedia # NULL /\ activeMedia.post.id = lastOp.arg
    /\ activeModal = NULL

----------------------------------------------------------------------------
(* C2 *)

\* C2: minimize and restore change only the display mode of the active playable
\* item: isPlaying, the elapsed time, the item and its recorded position stay as
\* they were, the element is not paused and not sought, and activeModal is untouched.
C2_MinimizeRestorePreservesTransport ==
    [][lastOp'.name \in {"minimize", "restore"} /\ activeMedia # NULL
       => /\ activeMedia' = [activeMedia EXCEPT !.mode = IF lastOp'.name = "minimize" THEN "minimized" ELSE "modal"]
          /\ activeModal' = activeModal
          /\ player'.isPlaying = player.isPlaying
          /\ player'.currentTime = player.currentTime
          /\ player'.duration = player.duration
          /\ media'.src = media.src
          /\ media'.currentTime = media.currentTime
          /\ (~media.paused => ~media'.paused)]_vars

\* restore right after minimize, of an item that is paused at a non-zero time
C2_Witness ==
    /\ lastOp.name = "restore"
    /\ lastOp.before.mode = "minimized"
    /\ activeMedia # NULL /\ activeMedia.mode = "modal"
    /\ ~player.isPlaying /\ ~lastOp.before.isPlaying
    /\ player.currentTime > 0 /\ player.currentTime = lastOp.before.currentTime

----------------------------------------------------------------------------
(* C3 *)

\* the position a navigation in direction dir lands on
NavTarget(dir) == IF dir = "next" THEN currentIndex + 1 ELSE currentIndex - 1

\* the navigation passes the handler's guards and lands on a playable item
NavLandsOnPlayable(dir) ==
    /\ currentIndex >= 0
    /\ NavTarget(dir) \in 0..(Len(FP) - 1)
    /\ Playable(FP[NavTarget(dir) + 1].type)

\* C3 as stated: whenever navigate(Next) or navigate(Prev) succeeds and the new
\* item is playable, the resulting transport state is elapsed = 0 and
\* isPlaying = true, whatever was active before.
C3_NavigationResetsTransport ==
    [][lastOp'.name \in {"next", "prev"} /\ NavLandsOnPlayable(lastOp'.name)
       => /\ activeMedia' # NULL
          /\ activeMedia'.post = FP[NavTarget(lastOp'.name) + 1]
          /\ player'.isPlaying
          /\ player'.currentTime = 0]_vars

----------------------------------------------------------------------------
(* C4 *)

\* C4: a card click on the playable item that is held minimized switches the
\* same activeMedia (item, position, start time) to full-screen mode and leaves
\* isPlaying, the elapsed time and the element's source and position as they
\* were: playback is not restarted.
C4_ReopenMinimizedResumes ==
    [][/\ lastOp'.name = "cardClick"
       /\ activeMedia # NULL
       /\ activeMedia.mode = "minimized"
       /\ activeMedia.post.id = lastOp'.arg
       => /\ activeMedia' = [activeMedia EXCEPT !.mode = "modal"]
          /\ player'.isPlaying = player.isPlaying
          /\ player'.currentTime = player.currentTime
          /\ player'.duration = player.duration
          /\ media'.src = media.src
          /\ media'.currentTime = media.currentTime]_vars

\* the minimized audio item with initialTime 1 was reopened while paused at time 2
C4_Witness ==
    /\ lastOp.name = "cardClick"
    /\ lastOp.arg = "a1"
    /\ lastOp.before.media = "a1"
    /\ lastOp.before.mode = "minimized"
    /\ activeMedia # NULL /\ activeMedia.mode = "modal"
    /\ ~player.isPlaying
    /\ player.currentTime = 2
    /\ media.currentTime = 2

----------------------------------------------------------------------------
(* C5 *)

\* C5: whenever an active playable item is closed, in full-screen or minimized
\* mode, the player is gone and the media session is cleared: metadata null,
\* playbackState 'none', no play / pause / nexttrack / previoustrack handler.
C5_CloseClearsSession ==
    [][lastOp'.name = "closeMedia" /\ activeMedia # NULL
       => /\ activeMedia' = NULL
          /\ player' = NULL
          /\ session'.metadata = NULL
          /\ session'.playbackState = "none"
          /\ session'.play = NULL
          /\ session'.pause = NULL
          /\ session'.nexttrack = NULL
          /\ session'.previoustrack = NULL]_vars

\* a playing item was closed from minimized mode
C5_Witness ==
    /\ lastOp.name = "closeMedia"
    /\ lastOp.arg = "minimized"
    /\ lastOp.before.isPlaying
    /\ activeMedia = NULL
    /\ session = NoSession

----------------------------------------------------------------------------
(* C6 *)

\* C6: activeMedia, the only slot with a Minimized mode, always holds a Video
\* or Audio item; activeModal, which is always shown full screen, always holds
\* an Image, Note or Quote item; and minimize while no playable item is active
\* changes nothing.
C6_OnlyPlayableMinimizes ==
    /\ [](/\ activeMedia # NULL
             => /\ activeMedia.post.type \in {"video", "audio"}
                /\ activeMedia.mode \in {"modal", "minimized"}
          /\ activeModal # NULL => activeModal.post.type \in {"image", "note", "quote"})
    /\ [][lastOp'.name = "minimize" /\ activeMedia = NULL => UNCHANGED appvars]_vars

\* minimize was invoked while only a non-playable item was active
C6_Witness ==
    /\ lastOp.name = "minimize"
    /\ lastOp.before.media = ""
    /\ lastOp.before.modal # ""
    /\ activeMedia = NULL
    /\ activeModal # NULL

----------------------------------------------------------------------------
(* C7 *)

----------------------------------------------------------------------------
(* C8 *)

\* C8 as stated: with exactly one item active, the item L[p] recorded at its
\* position p in the filtered list L, p+1 < len(L), Next followed at once by
\* Prev over the unchanged list L shows the item L[p] at position p again.
C8_NextPrevRoundTrip ==
    trip.stage = "prev" => Top = NewModal(trip.list[trip.p + 1], trip.p)

----------------------------------------------------------------------------
(* C9 *)

SameLetter(c, d) == c = d \/ {c, d} = {"a", "A"} \/ {c, d} = {"b", "B"}

\* q occurs in s, letter case ignored
OccursIn(q, s) ==
    \E k \in 0..(Len(s) - Len(q)) : \A j \in 1..Len(q) : SameLetter(s[k + j], q[j])

ItemMatches(post, q) ==
    \/ OccursIn(q, post.title)
    \/ (post.description.some /\ OccursIn(q, post.description.val))
    \/ (post.noteText.some /\ OccursIn(q, post.noteText.val))
    \/ (post.quoteText.some /\ OccursIn(q, post.quoteText.val))

Matching == {i \in 1..Len(posts) : ItemMatches(posts[i], searchQuery)}

\* C9: the filtered list is the catalog itself for the empty query, and
\* otherwise the catalog's items in which the query occurs (case ignored) in
\* the title or in a present description, note text or quote text, each once
\* and in catalog order.
C9_FilterCorrect ==
    IF searchQuery = <<>> THEN FP = posts
    ELSE /\ Len(FP) = Cardinality(Matching)
         /\ \A i \in Matching : FP[Cardinality({j \in Matching : j <= i})] = posts[i]

\* of three items the second and the third match, the third one only through its
\* quote text and only when case is ignored
C9_Witness ==
    /\ Len(posts) = 3
    /\ searchQuery = <<"a", "b">>
    /\ FP = <<posts[2], posts[3]>>
    /\ posts[2].noteText.some
    /\ posts[3].quoteText = Some(<<"A", "b">>)

----------------------------------------------------------------------------
(* C10 *)

\* C10 as stated: a card click on a playable item that is not the currently
\* minimized item makes that item the only active item, full screen at its
\* position in the filtered list, starting at initialTime (0 when it has none)
\* with isPlaying = true, whatever was active before.
C10_OpenStartsPlayback ==
    [][/\ lastOp'.name = "cardClick"
       /\ Playable(PostById(lastOp'.arg).type)
       /\ ~(activeMedia # NULL /\ activeMedia.mode = "minimized" /\ activeMedia.post.id = lastOp'.arg)
       => /\ activeMedia' # NULL
          /\ activeMedia'.post = PostById(lastOp'.arg)
          /\ activeMedia'.mode = "modal"
          /\ activeMedia'.currentTime =
                (IF PostById(lastOp'.arg).initialTime.some THEN PostById(lastOp'.arg).initialTime.val ELSE 0)
          /\ activeModal' = NULL
          /\ player'.isPlaying]_vars

----------------------------------------------------------------------------
(* C11 *)

\* the navigation passes the handler's guards: an item is recorded and the
\* position it steps to lies inside the filtered list
NavSucceeds(dir) == currentIndex >= 0 /\ NavTarget(dir) \in 0..(Len(FP) - 1)

\* C11: when Next or Prev succeeds from the recorded position p, the item at
\* p+1 / p-1 of the filtered list becomes the active item in full-screen mode
\* with that position recorded: a playable item as activeMedia in mode 'modal'
\* with no Modal over it, any other item as activeModal; nothing is thrown.
C11_NavigationActivatesNeighbour ==
    [][lastOp'.name \in {"next", "prev"} /\ NavSucceeds(lastOp'.name)
       => LET t == NavTarget(lastOp'.name)
              item == FP[t + 1]
          IN  /\ ~lastOp'.threw
              /\ IF Playable(item.type)
                 THEN /\ activeMedia' # NULL
                      /\ activeMedia'.post = item
                      /\ activeMedia'.index = t
                      /\ activeMedia'.mode = "modal"
                      /\ activeModal' = NULL
                 ELSE activeModal' = [post |-> item, index |-> t]]_vars

\* Next stepped from a non-playable item to a playable one, now full screen
C11_Witness ==
    /\ lastOp.name = "next"
    /\ lastOp.before.modal # ""
    /\ lastOp.before.media = ""
    /\ activeModal = NULL
    /\ activeMedia # NULL
    /\ activeMedia.mode = "modal"
    /\ activeMedia.index >= 1
    /\ FP[activeMedia.index].id = lastOp.before.modal

----------------------------------------------------------------------------
(* C12 *)

\* C12 as stated: after the player or the Modal is closed while some item is
\* active, no item of any kind remains active.
C12_CloseLeavesNothingActive ==
    [][lastOp'.name \in {"closeMedia", "closeModal"} /\ (activeMedia # NULL \/ activeModal # NULL)
       => activeMedia' = NULL /\ activeModal' = NULL]_vars

\* C12 amended: closing the player clears activeMedia (the player and its media
\* session go with it) and leaves activeModal as it was; closing the Modal
\* clears activeModal and leaves activeMedia and the player as they were.
C12_CloseClearsItsOwnSlot ==
    [][lastOp'.name \in {"closeMedia", "closeModal"}
       => IF lastOp'.name = "closeMedia"
          THEN activeMedia' = NULL /\ player' = NULL /\ activeModal' = activeModal
          ELSE activeModal' = NULL /\ activeMedia' = activeMedia /\ player' = player]_vars

\* the Modal was closed over a minimized player, which is still there
C12_Witness ==
    /\ lastOp.name = "closeModal"
    /\ lastOp.before.modal # ""
    /\ activeModal = NULL
    /\ activeMedia # NULL
    /\ activeMedia.mode = "minimized"
    /\ player # NULL

----------------------------------------------------------------------------
(* C13 *)

\* C13 as stated: Next or Prev invoked while the recorded position of the
\* active item lies beyond the end of the filtered list changes no state and
\* throws nothing.
C13_StalePositionIsNoOp ==
    [][lastOp'.name \in {"next", "prev"} /\ currentIndex >= Len(FP)
       => UNCHANGED appvars /\ ~lastOp'.threw]_vars

----------------------------------------------------------------------------
(* C20 *)

\* C20 as stated: right after every card click and every successful Next or
\* Prev, the recorded position of the item on top indexes that very item in
\* the filtered list.
C20_PositionIndexesActiveItem ==
    [][lastOp'.name = "cardClick" \/ (lastOp'.name \in {"next", "prev"} /\ NavSucceeds(lastOp'.name))
       => /\ Top' # NULL
          /\ Top'.index \in 0..(Len(FP') - 1)
          /\ FP'[Top'.index + 1].id = Top'.post.id]_vars

\* the card click lands on the playable item that is held minimized
ReopensMinimized ==
    /\ lastOp'.name = "cardClick"
    /\ activeMedia # NULL
    /\ activeMedia.mode = "minimized"
    /\ activeMedia.post.id = lastOp'.arg

\* C20 amended: the recorded position indexes the item on top right after
\* every successful Next or Prev and every card click except the one that
\* re-opens the minimized item; that one keeps the position recorded before.
C20_PositionIndexesOpenedItem ==
    [][lastOp'.name = "cardClick" \/ (lastOp'.name \in {"next", "prev"} /\ NavSucceeds(lastOp'.name))
       => IF ReopensMinimized
          THEN activeMedia'.index = activeMedia.index
          ELSE /\ Top' # NULL
               /\ Top'.index \in 0..(Len(FP') - 1)
               /\ FP'[Top'.index + 1].id = Top'.post.id]_vars

\* under a query, a card click opened an item that is not first in the
\* filtered list while another playable item was held
C20_Witness ==
    /\ lastOp.name = "cardClick"
    /\ searchQuery # <<>>
    /\ Top # NULL
    /\ Top.index >= 1
    /\ FP[Top.index + 1] = Top.post
    /\ lastOp.before.media # ""
    /\ lastOp.before.media # Top.post.id

----------------------------------------------------------------------------
(* C16 *)

\* C16 as stated: while a playable item is active, the host's Next signal makes
\* the item at its position + 1 the item shown when has-next holds and changes
\* nothing when it does not, likewise Previous with position - 1 and has-prev;
\* the host's Play and Pause signals each flip isPlaying.
C16_HostSignalsDriveNavigation ==
    [][/\ lastOp'.name \in {"signalNext", "signalPrev"} /\ activeMedia # NULL
          => LET forward == lastOp'.name = "signalNext"
                 has == IF forward THEN hasNext(activeMedia, FP) ELSE hasPrev(activeMedia, FP)
                 t == IF forward THEN activeMedia.index + 1 ELSE activeMedia.index - 1
             IN  IF has
                 THEN Top' # NULL /\ Top'.index = t /\ Top'.post = FP[t + 1]
                 ELSE UNCHANGED appvars
       /\ lastOp'.name \in {"signalPlay", "signalPause"}
          => player'.isPlaying = ~player.isPlaying]_vars

----------------------------------------------------------------------------
(* C17 *)

\* C17: a seek leaves the element's time within [0, duration]; a click left of
\* the progress bar gives 0, a click right of it gives the duration, a click on
\* it the matching fraction; with a duration that is not finite nothing changes.
C17_SeekStaysInRange ==
    [][lastOp'.name = "seek"
       => IF isFinite(media.duration)
          THEN /\ media'.currentTime \in 0..media.duration
               /\ lastOp'.arg < 0 => media'.currentTime = 0
               /\ lastOp'.arg > BarWidth => media'.currentTime = media.duration
               /\ lastOp'.arg \in 0..BarWidth
                  => media'.currentTime = (lastOp'.arg * media.duration) \div BarWidth
               /\ media'.duration = media.duration
          ELSE UNCHANGED appvars]_vars

\* a click right of the bar moved the element from an earlier time to its end
C17_Witness ==
    /\ lastOp.name = "seek"
    /\ lastOp.arg > BarWidth
    /\ media # NULL
    /\ isFinite(media.duration)
    /\ media.currentTime = media.duration
    /\ player.currentTime < media.currentTime

----------------------------------------------------------------------------
(* C19 *)

\* C19: when the promise of a play() rejects, isPlaying becomes false and the
\* element is paused; the item stays active in the mode it had, the Modal slot
\* is untouched and no error is set.
C19_RejectedPlayFallsBackToPaused ==
    [][lastOp'.name = "playRejected"
       => /\ player' # NULL
          /\ ~player'.isPlaying
          /\ media'.paused
          /\ activeMedia' = activeMedia
          /\ activeModal' = activeModal
          /\ error' = NULL
          /\ ~crashed']_vars

\* a play() was rejected while the item was full screen and isPlaying was true
C19_Witness ==
    /\ lastOp.name = "playRejected"
    /\ lastOp.before.isPlaying
    /\ lastOp.before.mode = "modal"
    /\ player # NULL
    /\ ~player.isPlaying
    /\ activeMedia.mode = "modal"

----------------------------------------------------------------------------
(* C14 *)

\* C14 as stated: once the fetch has failed after the load effect read a cached
\* list, nothing has crashed and the gallery shows the cached items.
C14_CachedItemsSurviveFetchFailure ==
    load.phase = "done" /\ load.outcome \in {"httpError", "networkError"} /\ load.read = "list"
        => ~crashed /\ View = "gallery" /\ posts = cache.items

----------------------------------------------------------------------------
(* C15 *)

\* C15 as stated: while the fresh load is under way after the load effect read
\* a cached list, the gallery shows that list; once the fresh load has
\* succeeded, `posts` is the freshly loaded list whatever the cache held.
C15_CacheFirstThenFresh ==
    /\ load.phase = "pending" /\ load.read = "list"
           => View = "gallery" /\ posts = cache.items
    /\ load.phase = "done" /\ load.outcome = "ok" /\ ~crashed
           => posts = load.fresh

----------------------------------------------------------------------------
(* C18 *)

\* C18 as stated: when the cache read throws, the cached text does not parse or
\* it parses to something that is not a list, nothing crashes and, until the
\* fresh load completes, the App shows the loading state with the empty
\* initial catalog and no error, as it does without a cache.
C18_BadCacheIsCacheMiss ==
    load.read \in {"unreadable", "garbled", "notlist"}
        => /\ ~crashed
           /\ load.phase = "pending" => View = "loading" /\ posts = <<>> /\ error = NULL

----------------------------------------------------------------------------
(* C21 *)

\* C21: a change of the query, or clearing it, leaves activeMedia (item,
\* position, mode), activeModal, the player's state and the media element as
\* they were; the catalog is untouched and only the filtered list follows the
\* new query.
C21_QueryChangeKeepsActiveItem ==
    [][lastOp'.name \in {"search", "clearSearch"}
       => /\ activeMedia' = activeMedia
          /\ activeModal' = activeModal
          /\ player' = player
          /\ media' = media
          /\ posts' = posts
          /\ lastOp'.name = "clearSearch" => searchQuery' = <<>>]_vars

\* after a query change the recorded position of the paused playable item
\* points past the end of the filtered list
C21_Witness ==
    /\ lastOp.name = "search"
    /\ activeMedia # NULL
    /\ lastOp.before.media = activeMedia.post.id
    /\ player # NULL
    /\ ~player.isPlaying
    /\ activeMedia.index >= Len(FP)

----------------------------------------------------------------------------
(* C22 *)

\* C22: while a player is mounted, the media element carries the active
\* playable item's source, and the four media-session handlers are the ones
\* registered for that item with has-next and has-prev as they are now; with
\* no player mounted no handler is registered.
C22_HandlersScopedToActiveItem ==
    IF player = NULL
    THEN /\ activeMedia = NULL
         /\ session.play = NULL /\ session.pause = NULL
         /\ session.nexttrack = NULL /\ session.previoustrack = NULL
    ELSE /\ activeMedia # NULL
         /\ media.src = activeMedia.post.id
         /\ media.tag = activeMedia.post.type
         /\ session.play = [fn |-> "togglePlay", item |-> activeMedia.post.id]
         /\ session.pause = [fn |-> "togglePlay", item |-> activeMedia.post.id]
         /\ session.nexttrack =
                [fn |-> "handleNext", item |-> activeMedia.post.id, enabled |-> hasNext(activeMedia, FP)]
         /\ session.previoustrack =
                [fn |-> "handlePrev", item |-> activeMedia.post.id, enabled |-> hasPrev(activeMedia, FP)]

\* navigation replaced one playable item by another, the last of the list,
\* and the registered handlers are the new item's
C22_Witness ==
    /\ lastOp.name = "next"
    /\ lastOp.before.media # ""
    /\ activeMedia # NULL
    /\ activeMedia.post.id # lastOp.before.media
    /\ session.nexttrack # NULL
    /\ session.nexttrack.item = activeMedia.post.id
    /\ ~session.nexttrack.enabled
    /\ session.previoustrack.enabled

----------------------------------------------------------------------------
(* C23 *)

\* C23: while a player is mounted, the published playbackState is 'playing'
\* when isPlaying is true and 'paused' when it is false, and the published
\* title and artwork are those of the active playable item.
C23_SessionMirrorsTransport ==
    player # NULL
        => /\ session.playbackState = (IF player.isPlaying THEN "playing" ELSE "paused")
           /\ session.metadata # NULL
           /\ session.metadata.title = activeMedia.post.title
           /\ session.metadata.artwork =
                  (IF activeMedia.post.coverUrl = "" THEN <<>> ELSE <<activeMedia.post.coverUrl>>)

\* a rejected play() left the item with cover art paused, published as 'paused'
C23_Witness ==
    /\ lastOp.name = "playRejected"
    /\ player # NULL
    /\ ~player.isPlaying
    /\ session.playbackState = "paused"
    /\ activeMedia.post.coverUrl # ""
    /\ session.metadata.artwork = <<activeMedia.post.coverUrl>>

----------------------------------------------------------------------------
(* C26 *)

\* C26: minimize, restore, close of the player, close of the Modal, Next and
\* Prev invoked while nothing is active leave nothing active, mount no player
\* and throw nothing.
C26_OperationsTotalWhenClosed ==
    [][/\ lastOp'.name \in {"minimize", "restore", "closeMedia", "closeModal", "next", "prev"}
       /\ activeMedia = NULL
       /\ activeModal = NULL
       => /\ activeMedia' = NULL
          /\ activeModal' = NULL
          /\ player' = NULL
          /\ ~lastOp'.threw
          /\ ~crashed']_vars

\* Next was invoked with nothing active over a list that has items
C26_Witness ==
    /\ lastOp.name = "next"
    /\ lastOp.before.media = ""
    /\ lastOp.before.modal = ""
    /\ activeMedia = NULL
    /\ activeModal = NULL
    /\ Len(FP) > 0

----------------------------------------------------------------------------
(* C27 *)

\* C27 as stated: with a non-playable item in the Modal at its position p of
\* the filtered list and a playable item held minimized at another position,
\* Next shows the item at p+1 and Prev the item at p-1 (nothing changes at the
\* ends of the list).
C27_NavigationStepsFromItemOnScreen ==
    [][/\ lastOp'.name \in {"next", "prev"}
       /\ activeModal # NULL
       /\ activeMedia # NULL
       /\ activeMedia.mode = "minimized"
       /\ activeMedia.index # activeModal.index
       /\ activeModal.index \in 0..(Len(FP) - 1)
       /\ FP[activeModal.index + 1] = activeModal.post
       => LET p == activeModal.index
              t == IF lastOp'.name = "next" THEN p + 1 ELSE p - 1
          IN  IF t \in 0..(Len(FP) - 1)
              THEN Top' # NULL /\ Top'.index = t /\ Top'.post = FP[t + 1]
              ELSE activeMedia' = activeMedia /\ activeModal' = activeModal]_vars

----------------------------------------------------------------------------
(* C28 *)

\* C28 as stated: the player in 'modal' mode and the Modal of a non-playable
\* item are never both present.
C28_OneFullScreenViewer ==
    ~(activeMedia # NULL /\ activeMedia.mode = "modal" /\ activeModal # NULL)

----------------------------------------------------------------------------
(* C25 *)

\* title, description, note body and quote text one after the other, an absent
\* field adding nothing
Concatenation(post) ==
    post.title
    \o (IF post.description.some THEN post.description.val ELSE <<>>)
    \o (IF post.noteText.some THEN post.noteText.val ELSE <<>>)
    \o (IF post.quoteText.some THEN post.quoteText.val ELSE <<>>)

\* the post is in the filtered list
Shown(post) == \E k \in 1..Len(FP) : FP[k] = post

\* C25 as stated: under a non-empty query an item is in the filtered list
\* exactly when the query occurs, letter case ignored, in the concatenation of
\* its title, description, note body and quote text.
C25_MatchOnConcatenation ==
    searchQuery # <<>>
        => \A i \in 1..Len(posts) : Shown(posts[i]) <=> OccursIn(searchQuery, Concatenation(posts[i]))

\* C25 amended: under a non-empty query an item is in the filtered list
\* exactly when the query occurs, letter case ignored, within one of its
\* fields (title, description, note body, quote text) that is present; a
\* query that only spans two adjacent fields does not match.
C25_MatchWithinOneField ==
    searchQuery # <<>>
        => \A i \in 1..Len(posts) : Shown(posts[i]) <=> ItemMatches(posts[i], searchQuery)

\* the query "ab" spans the title "a" and the description "b": no match
C25_Witness ==
    /\ lastOp.name = "search"
    /\ searchQuery = <<"a", "b">>
    /\ Len(posts) = 1
    /\ posts[1].title = <<"a">>
    /\ posts[1].description = Some(<<"b">>)
    /\ OccursIn(searchQuery, Concatenation(posts[1]))
    /\ FP = <<>>

----------------------------------------------------------------------------
(* C30 *)

\* C30 as stated: once a fresh load has succeeded and the cache write did not
\* fail, the cache holds the freshly loaded list, which is what the next
\* startup reads.
C30_CacheHoldsFreshList ==
    load.phase = "done" /\ load.outcome = "ok" /\ load.write # "failed"
        => cache = CachedList(load.fresh) /\ readCache(cache, <<>>).posts = load.fresh

\* C24: a single-finger gesture (one finger down, the same finger lifted)
\* invokes exactly one directional callback when the larger of |dx|, |dy| is
\* at least 50 and the duration is at most 500 ms, and none otherwise; the
\* callback is Left/Right when |dx| > |dy| (Right for dx > 0), else Up/Down
\* (Down for dy > 0)
C24_SwipeSignal ==
    [][lastOp'.name = "touchEnd" /\ touchStart # NULL /\ lastOp'.arg.changedTouches = 1
       => LET dx == lastOp'.arg.x - touchStart.x
              dy == lastOp'.arg.y - touchStart.y
              dt == lastOp'.arg.time - touchStart.time
          IN  IF Max(Abs(dx), Abs(dy)) >= MIN_SWIPE_DISTANCE /\ dt <= MAX_SWIPE_TIME
              THEN swiped' = IF Abs(dx) > Abs(dy)
                             THEN (IF dx > 0 THEN <<"Right">> ELSE <<"Left">>)
                             ELSE (IF dy > 0 THEN <<"Down">> ELSE <<"Up">>)
              ELSE swiped' = <<>>]_vars

\* C29: driven by the same card clicks, navigation, minimize, restore, close
\* and query changes from the same catalog, the two App components hold the
\* same active playable item (item, position, mode) and the same active
\* non-playable item after every step
C29_VariantsAgree ==
    twin.on =>
        /\ (activeMedia = NULL) = (twin.media = NULL)
        /\ activeMedia # NULL /\ twin.media # NULL =>
               /\ activeMedia.post = twin.media.post
               /\ activeMedia.index = twin.media.index
               /\ activeMedia.mode = twin.media.mode
        /\ (activeModal = NULL) = (twin.modal = NULL)
        /\ activeModal # NULL /\ twin.modal # NULL => activeModal.post = twin.modal.post

(* C31 *)

\* C31: from startup, with a fetch that settles, loading eventually ends: the
\* app reaches the catalog view or the load-error view, whatever the cache held
C31_LoadingEventuallyEnds == <>(View \in {"gallery", "error"})

====
